---- MODULE Spec2Model ----
(***************************************************************************)
(* Model of jest.config.ts: the registry of test shards, the resolution of *)
(* the Jest configuration of one shard (configureShardingOrFallbackTo),    *)
(* the selection of the shards touched by a list of changed files          *)
(* (getMatchingShards), the distribution of shards over runner instances   *)
(* (scheduleItems) and the SCHEDULE_TEST_SHARDS block that prints the CI   *)
(* matrix.                                                                 *)
(*                                                                         *)
(* Strings are sequences of tokens.  A token stands for the characters it  *)
(* spells; "/" is the path separator, "*" and "**" are the glob wildcards, *)
(* "[a-g]" and its like are character classes, ".spec" and ".ts" are the   *)
(* two halves of the test-file suffix '.spec.ts'.  A directory or file     *)
(* name is one token, or its first character followed by the rest where a  *)
(* character class has to look at that character ("d","ocker").            *)
(* Percentages are kept in hundredths (96.95 is 9695, 100 is 10000).       *)
(***************************************************************************)
EXTENDS Integers, Sequences, FiniteSets, TLC

VARIABLES
    pc,                  \* position of the run
    TEST_SHARD,          \* process.env.TEST_SHARD ("" when not set)
    config,              \* what configureShardingOrFallbackTo returned
    testFile,            \* the test file the runner is deciding on
    testRuns,            \* whether the resolved testMatch list runs testFile
    items,               \* scheduleItems: first argument
    availableInstances,  \* scheduleItems: second argument
    result,              \* scheduleItems: returned groups
    files,               \* getMatchingShards: argument
    matchingShards,      \* getMatchingShards: returned keys
    env,                 \* environment of the SCHEDULE_TEST_SHARDS block
    stdout,              \* lines written with console.log
    stderr,              \* lines written with console.error / process.stderr
    exitCode             \* process.exit argument, -1 while running

vars == <<pc, TEST_SHARD, config, testFile, testRuns, items, availableInstances,
          result, files, matchingShards, env, stdout, stderr, exitCode>>

(***************************************************************************)
(* Bounds of the model.                                                    *)
(***************************************************************************)
MaxItems == 12
MaxInstances == 5
MaxFiles == 2
MaxChangedFiles == 1

Min(a, b) == IF a < b THEN a ELSE b

(***************************************************************************)
(* The shard registry, in declaration order (Object.entries order).        *)
(***************************************************************************)
Dir(names) ==
    LET RECURSIVE join(_)
        join(i) == IF i = 1 THEN <<names[1]>>
                   ELSE join(i - 1) \o <<"/", names[i]>>
    IN  join(Len(names))

testShards == <<
    [key |-> "datasources-1",
     matchPaths |-> << Dir(<<"lib", "modules", "datasource">>) \o <<"/", "[a-g]", "*">> >>,
     threshold |-> [branches |-> 9695]],
    [key |-> "datasources-2",
     matchPaths |-> << Dir(<<"lib", "modules", "datasource">>) >>,
     threshold |-> [statements |-> 9935, branches |-> 9600,
                    functions |-> 9825, lines |-> 9935]],
    [key |-> "managers-1",
     matchPaths |-> << Dir(<<"lib", "modules", "manager">>) \o <<"/", "[a-c]", "*">> >>,
     threshold |-> [functions |-> 9930]],
    [key |-> "managers-2",
     matchPaths |-> << Dir(<<"lib", "modules", "manager">>) \o <<"/", "[d-h]", "*">> >>,
     threshold |-> [functions |-> 9970]],
    [key |-> "managers-3",
     matchPaths |-> << Dir(<<"lib", "modules", "manager">>) \o <<"/", "[i-n]", "*">> >>,
     threshold |-> [statements |-> 9965, branches |-> 9850,
                    functions |-> 9865, lines |-> 9965]],
    [key |-> "managers-4",
     matchPaths |-> << Dir(<<"lib", "modules", "manager">>) >>],
    [key |-> "platform",
     matchPaths |-> << Dir(<<"lib", "modules", "platform">>) >>,
     threshold |-> [branches |-> 9750]],
    [key |-> "versioning",
     matchPaths |-> << Dir(<<"lib", "modules", "versioning">>) >>,
     threshold |-> [branches |-> 9725]],
    [key |-> "workers-1",
     matchPaths |-> << Dir(<<"lib", "workers", "repository", "changelog">>),
                       Dir(<<"lib", "workers", "repository", "config-migration">>),
                       Dir(<<"lib", "workers", "repository", "extract">>),
                       Dir(<<"lib", "workers", "repository", "finalize">>),
                       Dir(<<"lib", "workers", "repository", "init">>),
                       Dir(<<"lib", "workers", "repository", "model">>) >>,
     threshold |-> [statements |-> 9899, branches |-> 9400, lines |-> 9898]],
    [key |-> "workers-2",
     matchPaths |-> << Dir(<<"lib", "workers", "repository", "onboarding">>),
                       Dir(<<"lib", "workers", "repository", "process">>) >>,
     threshold |-> [branches |-> 9873]],
    [key |-> "workers-3",
     matchPaths |-> << Dir(<<"lib", "workers", "repository", "update">>),
                       Dir(<<"lib", "workers", "repository", "updates">>) >>],
    [key |-> "workers-4",
     matchPaths |-> << Dir(<<"lib", "workers">>) >>,
     threshold |-> [statements |-> 9990, branches |-> 9827, lines |-> 9990]],
    [key |-> "git-1",
     matchPaths |-> << Dir(<<"lib", "util", "git", "index">>) \o <<".spec", ".ts">> >>,
     threshold |-> [statements |-> 9980, functions |-> 9755, lines |-> 9980]],
    [key |-> "git-2",
     matchPaths |-> << Dir(<<"lib", "util", "git">>) >>,
     threshold |-> [statements |-> 9840, branches |-> 9865,
                    functions |-> 9390, lines |-> 9840]],
    [key |-> "util",
     matchPaths |-> << Dir(<<"lib", "util">>) >>,
     threshold |-> [statements |-> 9785, branches |-> 9615,
                    functions |-> 9585, lines |-> 9795]],
    [key |-> "other",
     matchPaths |-> << Dir(<<"lib">>) >>]
>>

\* Object.keys(testShards)
ShardKeys == [i \in 1..Len(testShards) |-> testShards[i].key]

KeySet == {ShardKeys[i] : i \in 1..Len(ShardKeys)}

\* position of a key in the registry, 0 when it is no key (testShards[shardKey])
IndexOf(key) ==
    IF key \in KeySet
    THEN CHOOSE i \in 1..Len(testShards) : testShards[i].key = key
    ELSE 0

(***************************************************************************)
(* String helpers on token sequences.                                      *)
(***************************************************************************)
SpecTs == <<".spec", ".ts">>

Ts == <<".ts">>

\* pattern.endsWith('.spec.ts')
EndsWithSpecTs(s) ==
    /\ Len(s) >= 2
    /\ SubSeq(s, Len(s) - 1, Len(s)) = SpecTs

\* pattern.replace(/\.spec\.ts$/, replacement), for a pattern that ends so
ReplaceSpecTs(s, replacement) == SubSeq(s, 1, Len(s) - 2) \o replacement

\* pattern.startsWith('!')
StartsWithBang(s) == Len(s) >= 1 /\ s[1] = "!"

\* array.reverse()
Reverse(s) == [i \in 1..Len(s) |-> s[Len(s) + 1 - i]]

(***************************************************************************)
(* minimatch(file, pattern), for the pattern language the program builds:  *)
(* literal names, "*" inside a segment, character classes, "**" as a whole *)
(* segment, and one brace group.  No name in the model starts with a dot,  *)
(* so the dot rule of "*" and "**" never applies.                          *)
(***************************************************************************)
CharClass == [c \in {"[a-g]", "[a-c]", "[d-h]", "[i-n]"} |->
    CASE c = "[a-g]" -> {"a", "b", "c", "d", "e", "f", "g"}
      [] c = "[a-c]" -> {"a", "b", "c"}
      [] c = "[d-h]" -> {"d", "e", "f", "g", "h"}
      [] c = "[i-n]" -> {"i", "j", "k", "l", "m", "n"}]

BraceGroup == [b \in {"{.ts,.spec.ts}"} |-> {Ts, SpecTs}]

\* the segments of a path: path.split('/')
RECURSIVE Split(_)
Split(path) ==
    IF \A i \in 1..Len(path) : path[i] # "/"
    THEN <<path>>
    ELSE LET i == CHOOSE j \in 1..Len(path) :
                      path[j] = "/" /\ \A k \in 1..(j - 1) : path[k] # "/"
         IN  <<SubSeq(path, 1, i - 1)>> \o Split(SubSeq(path, i + 1, Len(path)))

\* brace expansion: every pattern obtained by choosing one alternative
RECURSIVE BraceExpand(_)
BraceExpand(pattern) ==
    IF \A i \in 1..Len(pattern) : pattern[i] \notin DOMAIN BraceGroup
    THEN {pattern}
    ELSE LET i == CHOOSE j \in 1..Len(pattern) : pattern[j] \in DOMAIN BraceGroup
         IN  UNION {BraceExpand(SubSeq(pattern, 1, i - 1) \o alt
                                \o SubSeq(pattern, i + 1, Len(pattern))) :
                    alt \in BraceGroup[pattern[i]]}

\* one pattern segment against one path segment
RECURSIVE SegMatch(_, _)
SegMatch(ps, fs) ==
    IF ps = <<>> THEN fs = <<>>
    ELSE IF Head(ps) = "*"
    THEN \E k \in 0..Len(fs) : SegMatch(Tail(ps), SubSeq(fs, k + 1, Len(fs)))
    ELSE IF Head(ps) \in DOMAIN CharClass
    THEN /\ fs # <<>>
         /\ Head(fs) \in CharClass[Head(ps)]
         /\ SegMatch(Tail(ps), Tail(fs))
    ELSE /\ fs # <<>>
         /\ Head(fs) = Head(ps)
         /\ SegMatch(Tail(ps), Tail(fs))

\* pattern segments against path segments; "**" spans zero or more segments
RECURSIVE PathMatch(_, _)
PathMatch(P, F) ==
    IF P = <<>> THEN F = <<>>
    ELSE IF Head(P) = <<"**">>
    THEN \E k \in 0..Len(F) : PathMatch(Tail(P), SubSeq(F, k + 1, Len(F)))
    ELSE /\ F # <<>>
         /\ SegMatch(Head(P), Head(F))
         /\ PathMatch(Tail(P), Tail(F))

minimatch(file, pattern) ==
    \E alt \in BraceExpand(pattern) : PathMatch(Split(alt), Split(file))

(***************************************************************************)
(* normalizePattern(pattern, suffix)                                       *)
(***************************************************************************)
normalizePattern(pattern, suffix) ==
    IF EndsWithSpecTs(pattern)
    THEN ReplaceSpecTs(pattern, suffix)
    ELSE pattern \o <<"/", "**", "/", "*">> \o suffix

(***************************************************************************)
(* getMatchingShards(files)                                                *)
(***************************************************************************)
\* the changed-file glob of one match path (the map callback)
ChangedFilePattern(path) ==
    IF EndsWithSpecTs(path)
    THEN ReplaceSpecTs(path, <<"{.ts,.spec.ts}">>)
    ELSE path \o <<"/", "**", "/", "*">>

\* patterns.some((pattern) => minimatch(file, pattern)) for one registry entry
SomePatternMatches(file, shard) ==
    \E i \in 1..Len(shard.matchPaths) :
        minimatch(file, ChangedFilePattern(shard.matchPaths[i]))

\* ScanShards without the break: every matching key is added
RECURSIVE ScanShardsNoBreak(_, _, _)
ScanShardsNoBreak(file, i, matching) ==
    IF i > Len(testShards) THEN matching
    ELSE IF SomePatternMatches(file, testShards[i])
    THEN ScanShardsNoBreak(file, i + 1, matching \cup {testShards[i].key})
    ELSE ScanShardsNoBreak(file, i + 1, matching)

\* the inner loop from entry i on: the set with the first matching key added
RECURSIVE ScanShards(_, _, _)
ScanShards(file, i, matching) ==
    IF i > Len(testShards) THEN matching
    ELSE IF SomePatternMatches(file, testShards[i])
    THEN matching \cup {testShards[i].key}
    ELSE ScanShards(file, i + 1, matching)

\* the outer loop over the files
RECURSIVE ScanFiles(_, _)
ScanFiles(fs, matching) ==
    IF fs = <<>> THEN matching
    ELSE ScanFiles(Tail(fs), ScanShards(Head(fs), 1, matching))

getMatchingShards(fs) ==
    LET matching == ScanFiles(fs, {})
    IN  SelectSeq(ShardKeys, LAMBDA shard : shard \in matching)

(***************************************************************************)
(* scheduleItems(items, availableInstances), with JavaScript's arithmetic. *)
(***************************************************************************)
NaN == "NaN"

Infinity == "Infinity"

\* Math.ceil(a / b) for an integer a >= 0
CeilDiv(a, b) ==
    IF b = 0 THEN (IF a = 0 THEN NaN ELSE Infinity)
    ELSE IF b > 0 THEN (a + b - 1) \div b
    ELSE -(a \div (-b))

\* a % b for an integer a >= 0 (the sign of the result is the dividend's)
Rem(a, b) ==
    IF b = 0 THEN NaN
    ELSE IF b > 0 THEN a % b
    ELSE a % (-b)

\* the length Array.from({ length: n }) gives: a negative n counts as 0
ToLength(n) == IF n > 0 THEN n ELSE 0

\* array.slice(begin, end) and array.slice(begin), for begin, end >= 0
Slice(s, begin, end) == SubSeq(s, begin + 1, Min(end, Len(s)))

SliceFrom(s, begin) == SubSeq(s, begin + 1, Len(s))

\* FillPartitions with rest never advanced past the partition just taken
RECURSIVE FillPartitionsKeepRest(_, _, _, _)
FillPartitionsKeepRest(idx, numInstances, partitionSizes, acc) ==
    IF ~(idx < numInstances) THEN acc.result
    ELSE LET partitionSize == partitionSizes[idx + 1]
             partition == Slice(acc.rest, 0, partitionSize)
         IN  FillPartitionsKeepRest(idx + 1, numInstances, partitionSizes,
                 [result |-> [acc.result EXCEPT ![idx + 1] = partition],
                  rest |-> acc.rest])

\* the loop that cuts the partitions off the front of rest
RECURSIVE FillPartitions(_, _, _, _)
FillPartitions(idx, numInstances, partitionSizes, acc) ==
    IF ~(idx < numInstances) THEN acc.result
    ELSE LET partitionSize == partitionSizes[idx + 1]
             partition == Slice(acc.rest, 0, partitionSize)
         IN  FillPartitions(idx + 1, numInstances, partitionSizes,
                 [result |-> [acc.result EXCEPT ![idx + 1] = partition],
                  rest |-> SliceFrom(acc.rest, partitionSize)])

\* scheduleItems with the remainder used as it is, a zero remainder included
scheduleItemsRemainderOnly(its, available) ==
    LET numInstances == Min(Len(its), available)
        maxPerInstance == CeilDiv(Len(its), numInstances)
        lighterInstancesIdx == Rem(Len(its), numInstances)
        partitionSizes ==
            [i \in 1..ToLength(numInstances) |->
                IF i - 1 < lighterInstancesIdx
                THEN maxPerInstance ELSE maxPerInstance - 1]
        empty == [i \in 1..ToLength(numInstances) |-> <<>>]
    IN  FillPartitions(0, numInstances, partitionSizes,
                       [result |-> empty, rest |-> its])

\* scheduleItems with one group per available instance, however few the items
scheduleItemsNoMin(its, available) ==
    LET numInstances == available
        maxPerInstance == CeilDiv(Len(its), numInstances)
        lighterInstancesIdx ==
            IF numInstances # 0 /\ Rem(Len(its), numInstances) = 0
            THEN numInstances
            ELSE Rem(Len(its), numInstances)
        partitionSizes ==
            [i \in 1..ToLength(numInstances) |->
                IF i - 1 < lighterInstancesIdx
                THEN maxPerInstance ELSE maxPerInstance - 1]
        empty == [i \in 1..ToLength(numInstances) |-> <<>>]
    IN  FillPartitions(0, numInstances, partitionSizes,
                       [result |-> empty, rest |-> its])

scheduleItems(its, available) ==
    LET numInstances == Min(Len(its), available)
        maxPerInstance == CeilDiv(Len(its), numInstances)
        \* with numInstances = 0 the remainder is NaN, and NaN === 0 is false
        lighterInstancesIdx ==
            IF numInstances # 0 /\ Rem(Len(its), numInstances) = 0
            THEN numInstances
            ELSE Rem(Len(its), numInstances)
        partitionSizes ==
            [i \in 1..ToLength(numInstances) |->
                IF i - 1 < lighterInstancesIdx
                THEN maxPerInstance ELSE maxPerInstance - 1]
        empty == [i \in 1..ToLength(numInstances) |-> <<>>]
    IN  FillPartitions(0, numInstances, partitionSizes,
                       [result |-> empty, rest |-> its])

(***************************************************************************)
(* configureShardingOrFallbackTo(fallback), reading TEST_SHARD.            *)
(***************************************************************************)
\* the argument of the one call the program makes
Fallback ==
    [collectCoverageFrom |->
        << <<"lib/**/*.{js,ts}">>,
           <<"!", "lib/**/*.{d,spec}.ts">>,
           <<"!", "lib/**/{__fixtures__,__mocks__,__testutil__,test}/**/*.{js,ts}">>,
           <<"!", "lib/**/types.ts">> >>,
     coverageThreshold |->
        [global |-> [branches |-> 9800, functions |-> 10000,
                     lines |-> 10000, statements |-> 10000]],
     coverageDirectory |-> <<"./coverage">>]

ThresholdFields == {"branches", "functions", "lines", "statements"}

\* { ...a, ...b }
Spread(a, b) ==
    [f \in DOMAIN a \cup DOMAIN b |-> IF f \in DOMAIN b THEN b[f] ELSE a[f]]

\* object?.field ?? 100, on the optional global threshold
OrHundred(defaultGlobal, field) ==
    IF field \in DOMAIN defaultGlobal THEN defaultGlobal[field] ELSE 10000

\* the entries of one shard, as the loop body pushes them
IncludeTestMatch(pattern) == <<"<rootDir>", "/">> \o normalizePattern(pattern, SpecTs)

IncludeCoverage(pattern) == normalizePattern(pattern, Ts)

\* ExcludeTestMatch without the leading globstar
ExcludeTestMatchUnanchored(pattern) == <<"!">> \o normalizePattern(pattern, SpecTs)

ExcludeTestMatch(pattern) == <<"!", "**", "/">> \o normalizePattern(pattern, SpecTs)

ExcludeCoverage(pattern) == <<"!">> \o normalizePattern(pattern, Ts)

\* ShardLoop without the break: the entries after the target are excluded too
RECURSIVE ShardLoopNoBreak(_, _, _)
ShardLoopNoBreak(i, shardKey, acc) ==
    IF i > Len(testShards) THEN acc
    ELSE LET shard == testShards[i]
             patterns == shard.matchPaths
         IN  IF shard.key = shardKey
             THEN ShardLoopNoBreak(i + 1, shardKey,
                      [testMatch |->
                           acc.testMatch \o [n \in 1..Len(patterns) |-> IncludeTestMatch(patterns[n])],
                       collectCoverageFrom |->
                           acc.collectCoverageFrom \o [n \in 1..Len(patterns) |-> IncludeCoverage(patterns[n])],
                       coverageThreshold |->
                           IF "threshold" \in DOMAIN shard
                           THEN [global |-> Spread(acc.coverageThreshold.global,
                                                   shard.threshold)]
                           ELSE acc.coverageThreshold])
             ELSE ShardLoopNoBreak(i + 1, shardKey,
                      [testMatch |->
                           acc.testMatch \o [n \in 1..Len(patterns) |-> ExcludeTestMatch(patterns[n])],
                       collectCoverageFrom |->
                           acc.collectCoverageFrom \o [n \in 1..Len(patterns) |-> ExcludeCoverage(patterns[n])],
                       coverageThreshold |-> acc.coverageThreshold])

\* the for loop over Object.entries(testShards), from entry i on
RECURSIVE ShardLoop(_, _, _)
ShardLoop(i, shardKey, acc) ==
    IF i > Len(testShards) THEN acc
    ELSE LET shard == testShards[i]
             patterns == shard.matchPaths
         IN  IF shard.key = shardKey
             THEN [testMatch |->
                       acc.testMatch \o [n \in 1..Len(patterns) |-> IncludeTestMatch(patterns[n])],
                   collectCoverageFrom |->
                       acc.collectCoverageFrom \o [n \in 1..Len(patterns) |-> IncludeCoverage(patterns[n])],
                   coverageThreshold |->
                       IF "threshold" \in DOMAIN shard
                       THEN [global |-> Spread(acc.coverageThreshold.global,
                                               shard.threshold)]
                       ELSE acc.coverageThreshold]
             ELSE ShardLoop(i + 1, shardKey,
                      [testMatch |->
                           acc.testMatch \o [n \in 1..Len(patterns) |-> ExcludeTestMatch(patterns[n])],
                       collectCoverageFrom |->
                           acc.collectCoverageFrom \o [n \in 1..Len(patterns) |-> ExcludeCoverage(patterns[n])],
                       coverageThreshold |-> acc.coverageThreshold])

configureShardingOrFallbackTo(shardKey, fallback) ==
    IF shardKey = "" THEN fallback
    ELSE IF IndexOf(shardKey) = 0
    THEN [threw |-> "Unknown value for TEST_SHARD", possible |-> ShardKeys]
    ELSE LET defaultGlobal ==
                 IF "coverageThreshold" \in DOMAIN fallback
                    /\ "global" \in DOMAIN fallback.coverageThreshold
                 THEN fallback.coverageThreshold.global
                 ELSE <<>>
             start ==
                 [testMatch |-> <<>>,
                  collectCoverageFrom |->
                      IF "collectCoverageFrom" \in DOMAIN fallback
                      THEN SelectSeq(fallback.collectCoverageFrom, StartsWithBang)
                      ELSE <<>>,
                  coverageThreshold |->
                      [global |-> [f \in ThresholdFields |->
                                       OrHundred(defaultGlobal, f)]]]
             done == ShardLoop(1, shardKey, start)
         IN  [testMatch |-> Reverse(done.testMatch),
              collectCoverageFrom |-> Reverse(done.collectCoverageFrom),
              coverageThreshold |-> done.coverageThreshold,
              coverageDirectory |-> <<"./coverage/shard/", shardKey>>]

(***************************************************************************)
(* The paths of the model: changed files as git reports them (relative to  *)
(* the repository root) and, among them, the test files.                   *)
(***************************************************************************)
Files == {
    Dir(<<"lib", "modules", "datasource">>) \o <<"/", "d", "ocker", "/", "index", ".spec", ".ts">>,
    Dir(<<"lib", "modules", "datasource">>) \o <<"/", "n", "pm", "/", "index", ".spec", ".ts">>,
    Dir(<<"lib", "modules", "datasource">>) \o <<"/", "c", "ommon", ".spec", ".ts">>,
    Dir(<<"lib", "modules", "manager">>) \o <<"/", "b", "undler", "/", "extract", ".spec", ".ts">>,
    Dir(<<"lib", "modules", "manager">>) \o <<"/", "g", "radle", "/", "parser", ".spec", ".ts">>,
    Dir(<<"lib", "modules", "manager">>) \o <<"/", "n", "pm", "/", "index", ".spec", ".ts">>,
    Dir(<<"lib", "modules", "manager">>) \o <<"/", "p", "ip", "/", "index", ".spec", ".ts">>,
    Dir(<<"lib", "modules", "platform", "github", "index">>) \o SpecTs,
    Dir(<<"lib", "modules", "versioning", "semver", "index">>) \o SpecTs,
    Dir(<<"lib", "workers", "repository", "init", "index">>) \o SpecTs,
    Dir(<<"lib", "workers", "repository", "process", "index">>) \o SpecTs,
    Dir(<<"lib", "workers", "repository", "updates", "index">>) \o SpecTs,
    Dir(<<"lib", "workers", "global", "index">>) \o SpecTs,
    Dir(<<"lib", "util", "git", "index">>) \o SpecTs,
    Dir(<<"lib", "util", "git", "index">>) \o Ts,
    Dir(<<"lib", "util", "git", "auth">>) \o SpecTs,
    Dir(<<"lib", "util", "http", "index">>) \o SpecTs,
    Dir(<<"lib", "config", "index">>) \o SpecTs,
    Dir(<<"lib", "config", "index">>) \o Ts,
    Dir(<<"lib", "config", "lib", "util", "index">>) \o SpecTs,
    Dir(<<"test", "util">>) \o SpecTs,
    Dir(<<"tools", "lib", "util", "check">>) \o SpecTs,
    <<"README.md">>
}

TestFiles == {f \in Files : EndsWithSpecTs(f)}

\* the sequences over S of length at most n
SeqsUpTo(S, n) == UNION {[1..k -> S] : k \in 0..n}

\* the absolute path of a file of the repository, <rootDir> standing for the root
AbsolutePath(file) == <<"<rootDir>", "/">> \o file

\* whether the runner executes a test file under a testMatch list: the file
\* matches an inclusion entry and no exclusion entry
Runs(testMatch, file) ==
    /\ \E i \in 1..Len(testMatch) :
           /\ ~StartsWithBang(testMatch[i])
           /\ minimatch(AbsolutePath(file), testMatch[i])
    /\ \A i \in 1..Len(testMatch) :
           StartsWithBang(testMatch[i]) =>
               ~minimatch(AbsolutePath(file), Tail(testMatch[i]))

(***************************************************************************)
(* The SCHEDULE_TEST_SHARDS block.                                         *)
(***************************************************************************)
\* array.join(sep)
RECURSIVE Join(_, _)
Join(s, sep) ==
    IF s = <<>> THEN <<>>
    ELSE IF Len(s) = 1 THEN <<s[1]>>
    ELSE <<s[1], sep>> \o Join(Tail(s), sep)

\* os.replace(/-latest$/, '')
Platform(os) ==
    CASE os = "ubuntu-latest" -> "ubuntu"
      [] os = "windows-latest" -> "windows"
      [] os = "macos-latest" -> "macos"

\* the ShardGroup records of one platform, for groups idx.. of its partition
ShardGroupsOf(os, groups) ==
    [idx \in 1..Len(groups) |->
        LET platform == Platform(os)
        IN  [os |-> os,
             coverage |-> (os = "ubuntu-latest"),
             name |-> [text |-> IF platform = "ubuntu" THEN "test"
                                ELSE "test-" \o platform,
                       number |-> idx, total |-> Len(groups)],
             shards |-> Join(groups[idx], " "),
             cacheKey |-> [md5 |-> Join(groups[idx], ":")],
             runnerTimeoutMinutes |-> IF platform = "ubuntu" THEN 10 ELSE 20,
             testTimeoutMilliseconds |->
                 IF platform = "windows" THEN 240000 ELSE 120000]]

\* ScheduleBlock without the exit on an empty selection
ScheduleBlockNoEarlyExit(e) ==
    LET filtering == e.FILTER_SHARDS = "true" /\ e.CHANGED_FILES.kind # "unset"
        matching == getMatchingShards(e.CHANGED_FILES.value)
        shardKeys ==
            IF filtering
            THEN SelectSeq(ShardKeys,
                           LAMBDA key : \E i \in 1..Len(matching) : matching[i] = key)
            ELSE ShardKeys
        ubuntu == ShardGroupsOf("ubuntu-latest", scheduleItems(shardKeys, 16))
        others ==
            IF e.ALL_PLATFORMS = "true"
            THEN ShardGroupsOf("windows-latest", scheduleItems(shardKeys, 8))
                 \o ShardGroupsOf("macos-latest", scheduleItems(shardKeys, 4))
            ELSE <<>>
        coverageFiles ==
            Join([i \in 1..Len(shardKeys) |->
                      <<"./coverage-reports/", shardKeys[i], ".json">>], ",")
    IN  IF filtering /\ e.CHANGED_FILES.kind = "malformed"
        THEN [stdout |-> <<>>, stderr |-> <<"SyntaxError">>, exitCode |-> 1]
        ELSE [stdout |-> << [key |-> "test-shard-matrix", value |-> ubuntu \o others],
                            [key |-> "test-coverage-files", value |-> coverageFiles] >>,
              stderr |-> <<>>, exitCode |-> 0]

\* what the block prints and how it exits, for the environment e
ScheduleBlock(e) ==
    LET filtering == e.FILTER_SHARDS = "true" /\ e.CHANGED_FILES.kind # "unset"
        matching == getMatchingShards(e.CHANGED_FILES.value)
        shardKeys ==
            IF filtering
            THEN SelectSeq(ShardKeys,
                           LAMBDA key : \E i \in 1..Len(matching) : matching[i] = key)
            ELSE ShardKeys
        ubuntu == ShardGroupsOf("ubuntu-latest", scheduleItems(shardKeys, 16))
        others ==
            IF e.ALL_PLATFORMS = "true"
            THEN ShardGroupsOf("windows-latest", scheduleItems(shardKeys, 8))
                 \o ShardGroupsOf("macos-latest", scheduleItems(shardKeys, 4))
            ELSE <<>>
        coverageFiles ==
            Join([i \in 1..Len(shardKeys) |->
                      <<"./coverage-reports/", shardKeys[i], ".json">>], ",")
    IN  IF filtering /\ e.CHANGED_FILES.kind = "malformed"
        THEN [stdout |-> <<>>, stderr |-> <<"SyntaxError">>, exitCode |-> 1]
        ELSE IF filtering /\ Len(matching) = 0
        THEN [stdout |-> << [key |-> "test-matrix-empty", value |-> "true"] >>,
              stderr |-> <<>>, exitCode |-> 0]
        ELSE [stdout |-> << [key |-> "test-shard-matrix", value |-> ubuntu \o others],
                            [key |-> "test-coverage-files", value |-> coverageFiles] >>,
              stderr |-> <<>>, exitCode |-> 0]

(***************************************************************************)
(* The state machine.                                                      *)
(***************************************************************************)
NoEnv ==
    [SCHEDULE_TEST_SHARDS |-> "", FILTER_SHARDS |-> "", ALL_PLATFORMS |-> "",
     CHANGED_FILES |-> [kind |-> "unset", value |-> <<>>]]

\* the values CHANGED_FILES takes: not set (or empty), not JSON, a JSON array
ChangedFilesValues(n) ==
    {[kind |-> "unset", value |-> <<>>], [kind |-> "malformed", value |-> <<>>]}
    \cup {[kind |-> "array", value |-> fs] : fs \in SeqsUpTo(Files, n)}

IdleResolver ==
    /\ TEST_SHARD = ""
    /\ config = <<>>
    /\ testFile = <<>>
    /\ testRuns = FALSE

IdleSchedule ==
    /\ items = <<>>
    /\ availableInstances = 0
    /\ result = <<>>

IdleSelect ==
    /\ files = <<>>
    /\ matchingShards = <<>>

IdleOutput ==
    /\ stdout = <<>>
    /\ stderr = <<>>
    /\ exitCode = -1

\* the module is loaded: the config constant is evaluated
LoadConfig ==
    /\ pc = "start"
    /\ config' = configureShardingOrFallbackTo(TEST_SHARD, Fallback)
    /\ pc' = IF "threw" \in DOMAIN config' THEN "threw" ELSE "configured"
    /\ UNCHANGED <<TEST_SHARD, testFile, testRuns, items, availableInstances,
                   result, files, matchingShards, env, stdout, stderr, exitCode>>

\* SCHEDULE_TEST_SHARDS is set: print the matrix and exit
ScheduleTestShards ==
    /\ pc = "configured"
    /\ env.SCHEDULE_TEST_SHARDS # ""
    /\ LET out == ScheduleBlock(env)
       IN  /\ stdout' = out.stdout
           /\ stderr' = out.stderr
           /\ exitCode' = out.exitCode
    /\ pc' = "exited"
    /\ UNCHANGED <<TEST_SHARD, config, testFile, testRuns, items,
                   availableInstances, result, files, matchingShards, env>>

\* otherwise the host statistics go to stderr and the config is exported
PrintHostStats ==
    /\ pc = "configured"
    /\ env.SCHEDULE_TEST_SHARDS = ""
    /\ stderr' = Append(stderr, "Host stats")
    /\ pc' = "exported"
    /\ UNCHANGED <<TEST_SHARD, config, testFile, testRuns, items,
                   availableInstances, result, files, matchingShards, env,
                   stdout, exitCode>>

\* the runner decides on one test file with the exported testMatch list
RunnerSelects ==
    /\ pc \in {"exported", "selected"}
    /\ "testMatch" \in DOMAIN config
    /\ \E f \in TestFiles :
           /\ testFile' = f
           /\ testRuns' = Runs(config.testMatch, f)
    /\ pc' = "selected"
    /\ UNCHANGED <<TEST_SHARD, config, items, availableInstances, result, files,
                   matchingShards, env, stdout, stderr, exitCode>>

\* a call of scheduleItems
CallScheduleItems ==
    /\ pc = "start"
    /\ result' = scheduleItems(items, availableInstances)
    /\ pc' = "scheduled"
    /\ UNCHANGED <<TEST_SHARD, config, testFile, testRuns, items,
                   availableInstances, files, matchingShards, env, stdout, stderr,
                   exitCode>>

\* a call of getMatchingShards
CallGetMatchingShards ==
    /\ pc = "start"
    /\ matchingShards' = getMatchingShards(files)
    /\ pc' = "matched"
    /\ UNCHANGED <<TEST_SHARD, config, testFile, testRuns, items,
                   availableInstances, result, files, env, stdout, stderr,
                   exitCode>>

\* a test run: TEST_SHARD is anything, SCHEDULE_TEST_SHARDS is not set
Init ==
    /\ pc = "start"
    /\ TEST_SHARD \in KeySet \cup {"", "no-such-shard"}
    /\ config = <<>>
    /\ testFile = <<>>
    /\ testRuns = FALSE
    /\ env = NoEnv
    /\ IdleSchedule /\ IdleSelect /\ IdleOutput

Next == LoadConfig \/ PrintHostStats \/ RunnerSelects

Spec == Init /\ [][Next]_vars

\* the setup job: TEST_SHARD is not set, SCHEDULE_TEST_SHARDS may be
InitMatrix ==
    /\ pc = "start"
    /\ env \in [SCHEDULE_TEST_SHARDS : {"", "true"},
                FILTER_SHARDS : {"true", "false"},
                ALL_PLATFORMS : {"true", "false"},
                CHANGED_FILES : ChangedFilesValues(MaxChangedFiles)]
    /\ IdleResolver /\ IdleSchedule /\ IdleSelect /\ IdleOutput

NextMatrix == LoadConfig \/ ScheduleTestShards \/ PrintHostStats

SpecMatrix == InitMatrix /\ [][NextMatrix]_vars

\* scheduleItems on the lists 1..n and the capacities around zero
InitSchedule ==
    /\ pc = "start"
    /\ items \in {[i \in 1..n |-> i] : n \in 0..MaxItems}
    /\ availableInstances \in (-MaxInstances)..MaxInstances
    /\ result = <<>>
    /\ env = NoEnv
    /\ IdleResolver /\ IdleSelect /\ IdleOutput

NextSchedule == CallScheduleItems

SpecSchedule == InitSchedule /\ [][NextSchedule]_vars

\* getMatchingShards on the lists of changed files
InitSelect ==
    /\ pc = "start"
    /\ files \in SeqsUpTo(Files, MaxFiles)
    /\ matchingShards = <<>>
    /\ env = NoEnv
    /\ IdleResolver /\ IdleSchedule /\ IdleOutput

NextSelect == CallGetMatchingShards

SpecSelect == InitSelect /\ [][NextSelect]_vars

(***************************************************************************)
(* Properties of scheduleItems, under SpecSchedule.                        *)
(***************************************************************************)
\* the call the claims are about: a non-empty list, at least one instance
ValidCall == pc = "scheduled" /\ items # <<>> /\ availableInstances >= 1

RECURSIVE Concat(_)
Concat(groups) ==
    IF groups = <<>> THEN <<>> ELSE Head(groups) \o Concat(Tail(groups))

RECURSIVE SumLen(_)
SumLen(groups) ==
    IF groups = <<>> THEN 0 ELSE Len(Head(groups)) + SumLen(Tail(groups))

\* C1: for a non-empty list and at least one instance, the groups of
\* scheduleItems concatenated in order are exactly the list, and their sizes
\* sum to its length.
C1_PartitionConservation ==
    ValidCall =>
        /\ Concat(result) = items
        /\ SumLen(result) = Len(items)

C1_Witness ==
    /\ pc = "scheduled"
    /\ Len(items) = 7
    /\ availableInstances = 2
    /\ result = << <<1, 2, 3, 4>>, <<5, 6, 7>> >>

\* C2: with numGroups = min(len, maxGroups), base = ceil(len / numGroups) and
\* r = len mod numGroups, group i (0-based) has size base when r = 0 or i < r
\* and base - 1 otherwise; sizes differ by at most 1 and never increase.
C2_PartitionSizes ==
    ValidCall =>
        LET numGroups == Min(Len(items), availableInstances)
            base == CHOOSE b \in 0..Len(items) :
                        b * numGroups >= Len(items) /\ (b - 1) * numGroups < Len(items)
            r == Len(items) % numGroups
        IN  /\ \A i \in DOMAIN result :
                   Len(result[i]) = IF r = 0 \/ i - 1 < r THEN base ELSE base - 1
            /\ \A i, j \in DOMAIN result :
                   /\ Len(result[i]) - Len(result[j]) <= 1
                   /\ i < j => Len(result[i]) >= Len(result[j])

C2_Witness ==
    /\ pc = "scheduled"
    /\ Len(items) = 10
    /\ availableInstances = 3
    /\ [i \in DOMAIN result |-> Len(result[i])] = <<4, 3, 3>>

\* C3: for a non-empty list and at least one instance, scheduleItems returns
\* exactly min(len, maxGroups) groups and none of them is empty.
C3_PartitionCap ==
    ValidCall =>
        /\ Len(result) = Min(Len(items), availableInstances)
        /\ Len(result) <= availableInstances
        /\ Len(result) <= Len(items)
        /\ \A i \in DOMAIN result : result[i] # <<>>

C3_Witness ==
    /\ pc = "scheduled"
    /\ Len(items) = 2
    /\ availableInstances = 5
    /\ result = << <<1>>, <<2>> >>

\* C8: a call of scheduleItems with a capacity that is not positive never
\* returns normally; stated on the non-empty lists, whose items a normal
\* return with no groups would drop.
C8_NonPositiveCapacityFails ==
    (availableInstances <= 0 /\ items # <<>>) => pc # "scheduled"

(***************************************************************************)
(* Properties of getMatchingShards, under SpecSelect.                      *)
(***************************************************************************)
\* for every path of the model, the registry entries with a matching pattern
MatchTable ==
    [f \in Files |->
        {i \in 1..Len(testShards) : SomePatternMatches(f, testShards[i])}]

\* registry entry i is the first one with a pattern matching the file
FirstMatch(file, i) ==
    /\ i \in MatchTable[file]
    /\ \A j \in 1..(i - 1) : j \notin MatchTable[file]

\* C4: getMatchingShards returns, in registry order and without duplicates,
\* exactly the shards that are the first matching entry of some changed file;
\* a file counts for one shard at most.
C4_FirstMatchWins ==
    pc = "matched" =>
        /\ matchingShards =
               SelectSeq(ShardKeys,
                         LAMBDA key : \E n \in 1..Len(files) :
                                          FirstMatch(files[n], IndexOf(key)))
        /\ \A n \in 1..Len(files) :
               Cardinality({i \in 1..Len(testShards) : FirstMatch(files[n], i)}) <= 1
        /\ Len(matchingShards) <= Len(files)

C4_Witness ==
    /\ pc = "matched"
    /\ files = << Dir(<<"lib", "config", "index">>) \o Ts,
                  Dir(<<"lib", "util", "git", "index">>) \o SpecTs >>
    /\ SomePatternMatches(files[2], testShards[IndexOf("git-2")])
    /\ matchingShards = <<"git-1", "other">>

(***************************************************************************)
(* Properties of the resolved configuration, under Spec.                   *)
(***************************************************************************)
\* C5: a test file that the config of one shard runs is run by the config of
\* no other shard.
C5_ShardsAreDisjoint ==
    (pc = "selected" /\ TEST_SHARD \in KeySet /\ testRuns) =>
        \A other \in KeySet \ {TEST_SHARD} :
            ~Runs(configureShardingOrFallbackTo(other, Fallback).testMatch, testFile)

C5_Witness ==
    /\ pc = "selected"
    /\ TEST_SHARD = "git-2"
    /\ testFile = Dir(<<"lib", "util", "git", "auth">>) \o SpecTs
    /\ testRuns
    /\ minimatch(AbsolutePath(testFile),
                 IncludeTestMatch(testShards[IndexOf("util")].matchPaths[1]))

\* the negated entries of a list
Negated(list) == {list[i] : i \in {j \in 1..Len(list) : StartsWithBang(list[j])}}

\* the match paths of the registry entries before position k
PathsBefore(k) ==
    UNION {{testShards[j].matchPaths[n] : n \in 1..Len(testShards[j].matchPaths)} :
           j \in 1..(k - 1)}

Resolved == pc \in {"configured", "exported", "selected"} /\ TEST_SHARD \in KeySet

\* the exclusions of the test-match list are the '!**/' entries of the
\* normalized patterns of the shards before the target
TestMatchExclusionLaw ==
    /\ \A e \in Negated(config.testMatch) : SubSeq(e, 1, 3) = <<"!", "**", "/">>
    /\ {SubSeq(e, 4, Len(e)) : e \in Negated(config.testMatch)} =
           {normalizePattern(p, SpecTs) : p \in PathsBefore(IndexOf(TEST_SHARD))}

\* C6, as claimed: in both lists the exclusions are exactly the normalized
\* patterns of the shards before the target, and nothing of another origin.
C6_ExclusionsOnlyFromPrecedingShards ==
    Resolved =>
        /\ TestMatchExclusionLaw
        /\ {Tail(e) : e \in Negated(config.collectCoverageFrom)} =
               {normalizePattern(p, Ts) : p \in PathsBefore(IndexOf(TEST_SHARD))}

\* C6, amended: the exclusions of the test-match list are exactly the
\* normalized patterns of the shards before the target; those of the
\* coverage list are these patterns together with the exclusions of the base
\* config, and nothing else.
C6_ExclusionLaw ==
    Resolved =>
        /\ TestMatchExclusionLaw
        /\ {Tail(e) : e \in Negated(config.collectCoverageFrom)} =
               {normalizePattern(p, Ts) : p \in PathsBefore(IndexOf(TEST_SHARD))}
               \cup {Tail(e) : e \in Negated(Fallback.collectCoverageFrom)}

C6_Witness ==
    /\ pc = "configured"
    /\ TEST_SHARD = "managers-2"
    /\ Cardinality(Negated(config.testMatch)) = 3
    /\ Cardinality(Negated(config.collectCoverageFrom)) = 6

\* C7: every threshold field that the override of the target shard leaves
\* out resolves to 100.
C7_OmittedFieldsDefaultTo100 ==
    Resolved =>
        LET shard == testShards[IndexOf(TEST_SHARD)]
            given == IF "threshold" \in DOMAIN shard
                     THEN DOMAIN shard.threshold ELSE {}
        IN  \A f \in ThresholdFields \ given :
                config.coverageThreshold.global[f] = 10000

\* C10: getMatchingShards on one changed test file returns the target shard
\* alone exactly when the config resolved for the target runs the file.
C10_SelectorAgreesWithResolver ==
    (pc = "selected" /\ TEST_SHARD \in KeySet) =>
        ((getMatchingShards(<<testFile>>) = <<TEST_SHARD>>) <=> testRuns)

(***************************************************************************)
(* Properties of the SCHEDULE_TEST_SHARDS block, under SpecMatrix.         *)
(***************************************************************************)
\* no changed file matches a pattern of any shard
NoFileMatches(fs) ==
    \A n \in 1..Len(fs) : \A i \in 1..Len(testShards) :
        ~SomePatternMatches(fs[n], testShards[i])

\* C9: with filtering on and a changed-file list that is empty or matches no
\* shard, the block prints the empty-matrix line alone and exits with 0.
C9_EmptySelectionRunsNothing ==
    (/\ pc = "exited"
     /\ env.FILTER_SHARDS = "true"
     /\ env.CHANGED_FILES.kind = "array"
     /\ NoFileMatches(env.CHANGED_FILES.value)) =>
        /\ stdout = << [key |-> "test-matrix-empty", value |-> "true"] >>
        /\ stderr = <<>>
        /\ exitCode = 0

C9_Witness ==
    /\ pc = "exited"
    /\ env.FILTER_SHARDS = "true"
    /\ env.CHANGED_FILES = [kind |-> "array", value |-> <<>>]
    /\ stdout = << [key |-> "test-matrix-empty", value |-> "true"] >>
    /\ exitCode = 0

====
